---- MODULE Spec2Model ----
(***************************************************************************)
(* Context persistence and summarization workflow of ai-context-bridge:    *)
(* the contexts/messages tables, the summarization provider client, the    *)
(* workflow service (create, get, list, delete, expiry sweep) and the      *)
(* HTTP routes in front of it.                                             *)
(*                                                                         *)
(* Granularity.  Every `await` on the database is a point where another    *)
(* request may run.  A request is modelled as one action per database      *)
(* statement whose effect or result another request can influence:         *)
(*   create : CreateBegin (validation, provider call, flush: nothing is    *)
(*            visible to others yet), then CreateAbort, or CreateCommit    *)
(*            followed by CreateRefresh (db.refresh re-reads the row);     *)
(*   get    : GetSelect (SELECT contexts), GetLoad (selectinload's SELECT  *)
(*            on messages, the sort, the response);                        *)
(*   list   : ListCount (SELECT count), ListPage (SELECT page, response);  *)
(*   delete : one DELETE statement, visible at its commit;                 *)
(*   sweep  : one DELETE statement, visible at its commit.                 *)
(***************************************************************************)
EXTENDS Integers, Sequences, FiniteSets, TLC

VARIABLES
    contexts,       \* committed rows of table "contexts"
    messages,       \* committed rows of table "messages": context id -> rows
    now,            \* datetime.utcnow(), in clock ticks
    nextId,         \* ids handed out so far by generate_uuid (never reused)
    client,         \* openai_service.client is not None
    backend,        \* settings.DATABASE_URL: "sqlite" or "postgresql"
    pc,             \* per request slot: where the request is suspended
    loc,            \* per request slot: the request's local variables
    response,       \* the most recent HTTP response / service return value
    submitted,      \* history: id -> the create call that committed it
    reported        \* history: what delete and sweep calls have returned

vars == <<contexts, messages, now, nextId, client, backend, pc, loc,
          response, submitted, reported>>

(***************************************************************************)
(* Bounds of the model.                                                    *)
(***************************************************************************)
MaxContexts == 2        \* ids generate_uuid hands out in one behaviour
NumRequests == 2        \* requests in flight at the same time
MaxTicks    == 2        \* clock advances in one behaviour
TicksPerDay == 1        \* clock resolution

(***************************************************************************)
(* Program constants.                                                      *)
(***************************************************************************)
MAX_MESSAGES_PER_CONTEXT == 500     \* config.py
DEFAULT_RETENTION_DAYS   == 30      \* config.py
messages_min_length      == 1       \* schemas.py, ContextCreate.messages
messages_max_length      == 500     \* schemas.py, ContextCreate.messages
limit_ge                 == 1       \* contexts.py, Query(20, ge=1, le=100)
limit_le                 == 100
offset_ge                == 0       \* contexts.py, Query(0, ge=0)

Requests  == 1..NumRequests
Platforms == {"chatgpt", "claude", "gemini", "poe"}
Roles     == {"user", "assistant"}

\* Optional[T]: None, or a value
None    == <<>>
Some(x) == <<x>>

Retention == DEFAULT_RETENTION_DAYS * TicksPerDay

(***************************************************************************)
(* Request bodies.  A MessageCreate is {role, content, timestamp}; the     *)
(* conversations below carry timestamps that DEcrease along the submitted  *)
(* order, so ordering by timestamp would reverse them.                     *)
(***************************************************************************)
MessageCreate(role, content, timestamp) ==
    [role |-> role, content |-> content, timestamp |-> timestamp]

Conversation(n) ==
    [i \in 1..n |->
        MessageCreate(IF i % 2 = 1 THEN "user" ELSE "assistant", "text", n - i)]

MessageCounts == {0, 1, 2, messages_max_length, messages_max_length + 1}
Summaries     == {None, Some(""), Some("Greeting exchange")}

ContextCreate(platform, n, summary, generate_ai_summary) ==
    [platform            |-> platform,
     messages            |-> Conversation(n),
     formatted           |-> "## Full Conversation",
     summary             |-> summary,
     generate_ai_summary |-> generate_ai_summary]

\* request bodies: every combination of a client summary and the
\* generate_ai_summary flag, on conversations of one and of two messages
SummaryBodies ==
    {ContextCreate("chatgpt", n, s, g) :
        n \in {1, 2}, s \in Summaries, g \in BOOLEAN}

\* request bodies: one of each message count
CountBodies ==
    {ContextCreate("claude", n, None, TRUE) : n \in MessageCounts}

\* request bodies used where requests are interleaved with every other
\* operation
Bodies ==
    {ContextCreate("chatgpt", 1, None, FALSE),
     ContextCreate("claude", 2, Some("Greeting exchange"), FALSE),
     ContextCreate("claude", 0, None, FALSE)}

\* what the upstream chat-completions call does once it is reached
Upstream ==
    {[ok |-> TRUE, content |-> Some("AI summary"), total_tokens |-> 214,
      model |-> "gpt-4-0125-preview"],
     [ok |-> FALSE, error |-> "insufficient_quota"],
     [ok |-> FALSE, error |-> "connection timeout"]}

(***************************************************************************)
(* schemas.py: ContextCreate's field constraints and its validator.        *)
(***************************************************************************)
validate_messages(v) ==
    /\ ~(Len(v) > 500)
    /\ ~(Len(v) = 0)

ContextCreateFields(body) ==
    /\ body.platform \in Platforms
    /\ Len(body.messages) >= messages_min_length
    /\ Len(body.messages) <= messages_max_length
    /\ Len(body.formatted) >= 1
    /\ \A i \in 1..Len(body.messages) :
          /\ body.messages[i].role \in Roles
          /\ Len(body.messages[i].content) >= 1

\* mutant: the schema bounds the message count from below only
ContextCreateValidNoMax(body) ==
    /\ body.platform \in Platforms
    /\ Len(body.messages) >= messages_min_length
    /\ Len(body.formatted) >= 1

ContextCreateValid(body) ==
    ContextCreateFields(body) /\ validate_messages(body.messages)

(***************************************************************************)
(* openai_service.py: generate_summary.  The result is either a raised     *)
(* exception or the dict {summary, tokens_used, model}.                    *)
(***************************************************************************)
Raised(message) == [raised |-> TRUE, error |-> message]
Returned(value) == [raised |-> FALSE, value |-> value]

generate_summary(msgs, up) ==
    IF ~client
    THEN Raised("OpenAI API key not configured")
    ELSE IF up.ok
         THEN Returned([summary     |-> up.content,
                        tokens_used |-> up.total_tokens,
                        model       |-> up.model])
         ELSE Raised("Failed to generate AI summary: " \o up.error)

(***************************************************************************)
(* context_service.py: create_context, lines 29-48: the summary and the    *)
(* ai_summary_metadata the Context row is built with.  `not summary` is    *)
(* Python truthiness: true of None and of the empty string.                *)
(***************************************************************************)
Falsy(opt) == opt = None \/ opt = Some("")

BasicSummary(n) == Some("Conversation with " \o ToString(n) \o " messages")

\* mutant: the fallback tests `summary is None`
SummaryStepNoneOnly(body, up) ==
    IF body.generate_ai_summary
    THEN LET ai_result == generate_summary(body.messages, up)
         IN  IF ~ai_result.raised
             THEN [summary  |-> ai_result.value.summary,
                   ai_summary_metadata |->
                       Some([tokens_used  |-> ai_result.value.tokens_used,
                             model        |-> ai_result.value.model,
                             generated_at |-> now])]
             ELSE [summary  |-> IF body.summary = None
                                THEN BasicSummary(Len(body.messages))
                                ELSE body.summary,
                   ai_summary_metadata |-> None]
    ELSE [summary  |-> body.summary,
          ai_summary_metadata |-> None]

\* mutant: the basic summary is filled in whether or not AI was requested
SummaryStepAlwaysBasic(body, up) ==
    LET filled == IF Falsy(body.summary)
                  THEN BasicSummary(Len(body.messages))
                  ELSE body.summary
    IN  IF body.generate_ai_summary
        THEN LET ai_result == generate_summary(body.messages, up)
             IN  IF ~ai_result.raised
                 THEN [summary  |-> ai_result.value.summary,
                       ai_summary_metadata |->
                           Some([tokens_used  |-> ai_result.value.tokens_used,
                                 model        |-> ai_result.value.model,
                                 generated_at |-> now])]
                 ELSE [summary |-> filled, ai_summary_metadata |-> None]
        ELSE [summary |-> filled, ai_summary_metadata |-> None]

\* mutant: a client summary wins over the provider's text
SummaryStepKeepsClient(body, up) ==
    IF body.generate_ai_summary
    THEN LET ai_result == generate_summary(body.messages, up)
         IN  IF ~ai_result.raised
             THEN [summary  |-> IF Falsy(body.summary)
                                THEN ai_result.value.summary
                                ELSE body.summary,
                   ai_summary_metadata |->
                       Some([tokens_used  |-> ai_result.value.tokens_used,
                             model        |-> ai_result.value.model,
                             generated_at |-> now])]
             ELSE [summary  |-> IF Falsy(body.summary)
                                THEN BasicSummary(Len(body.messages))
                                ELSE body.summary,
                   ai_summary_metadata |-> None]
    ELSE [summary  |-> body.summary,
          ai_summary_metadata |-> None]

SummaryStep(body, up) ==
    IF body.generate_ai_summary
    THEN LET ai_result == generate_summary(body.messages, up)
         IN  IF ~ai_result.raised
             THEN [summary  |-> ai_result.value.summary,
                   ai_summary_metadata |->
                       Some([tokens_used  |-> ai_result.value.tokens_used,
                             model        |-> ai_result.value.model,
                             generated_at |-> now])]
             ELSE [summary  |-> IF Falsy(body.summary)
                                THEN BasicSummary(Len(body.messages))
                                ELSE body.summary,
                   ai_summary_metadata |-> None]
    ELSE [summary  |-> body.summary,
          ai_summary_metadata |-> None]

(***************************************************************************)
(* The store.                                                              *)
(***************************************************************************)
Ids       == 1..MaxContexts         \* the ids generate_uuid hands out
UnknownId == MaxContexts + 1        \* a well-formed id never handed out
PathIds   == Ids \cup {UnknownId}   \* ids clients put in a path

StoredIds == {c.id : c \in contexts}
Row(id)   == CHOOSE c \in contexts : c.id = id

\* models.py: ForeignKey("contexts.id", ondelete="CASCADE") is a rule of the
\* database.  The services delete with a Core DELETE statement, which the
\* ORM relationship cascade does not see.  PostgreSQL enforces the rule;
\* SQLite ignores foreign keys unless PRAGMA foreign_keys=ON is issued on
\* the connection, which database.py does not do.
CascadeEnforced == backend = "postgresql"

Cascade(gone) ==
    IF CascadeEnforced
    THEN [id \in Ids |-> IF id \in gone THEN <<>> ELSE messages[id]]
    ELSE messages

\* the clock is read in steps of a whole retention period (Tick) and of one
\* tick (between two reads inside one flush)
ClockJumps    == {Retention}
ClockSteps(t) == (t \div Retention) + (t % Retention)
CanAdvance    == ClockSteps(now) < MaxTicks

\* config.py: the settings as shipped (SQLite file, no OPENAI_API_KEY) and a
\* production deployment (PostgreSQL, key set)
Deployments ==
    {[backend |-> "sqlite", client |-> FALSE],
     [backend |-> "postgresql", client |-> TRUE]}

NoLocals   == [op |-> "none"]
NoResponse == [op |-> "none"]

\* A response is an output: it is handed to its client (Deliver) before the
\* server takes its next step, so `response` always shows the state it was
\* computed in.
Ready == response = NoResponse

\* A new request takes the lowest free slot (slots are interchangeable).
Free(r) == pc[r] = "idle" /\ \A q \in Requests : q < r => pc[q] # "idle"

Init ==
    /\ contexts = {}
    /\ messages = [id \in Ids |-> <<>>]
    /\ now = 0
    /\ nextId = 1
    /\ \E d \in Deployments : client = d.client /\ backend = d.backend
    /\ pc = [r \in Requests |-> "idle"]
    /\ loc = [r \in Requests |-> NoLocals]
    /\ response = NoResponse
    /\ submitted = [id \in Ids |-> None]
    /\ reported = [deleted |-> [id \in PathIds |-> 0],
                   swept |-> 0, swept_ids |-> {}]

Deliver ==
    /\ ~Ready
    /\ response' = NoResponse
    /\ UNCHANGED <<contexts, messages, now, nextId, client, backend, pc, loc,
                   submitted, reported>>

Tick ==
    /\ Ready
    /\ CanAdvance
    /\ \E d \in ClockJumps : now' = now + d
    /\ UNCHANGED <<contexts, messages, nextId, client, backend, pc, loc,
                   response, submitted, reported>>

(***************************************************************************)
(* create_context.  context_service.py lines 29-72: the summary, the       *)
(* Context object, db.add + db.flush (the id and the column defaults are   *)
(* evaluated here: created_at and expires_at come from two separate        *)
(* datetime.utcnow() calls, `skew` ticks apart), then one Message per      *)
(* input message with sequence_order = its index.  Nothing is committed.   *)
(***************************************************************************)
NewContext(body, s, skew) ==
    [id                  |-> nextId,
     platform            |-> body.platform,
     message_count       |-> Len(body.messages),
     formatted_text      |-> body.formatted,
     summary             |-> s.summary,
     ai_summary_metadata |-> s.ai_summary_metadata,
     created_at          |-> now,
     updated_at          |-> now,
     expires_at          |-> now + skew + Retention]

NewMessages(body) ==
    [idx \in 1..Len(body.messages) |->
        [context_id        |-> nextId,
         role              |-> body.messages[idx].role,
         content           |-> body.messages[idx].content,
         message_timestamp |-> body.messages[idx].timestamp,
         sequence_order    |-> idx - 1]]

\* history: what the upstream call did, if create_context reached it
NotReached == [ok |-> FALSE, error |-> "not reached"]

Reached(body, up) ==
    IF body.generate_ai_summary /\ client THEN up ELSE NotReached

ServiceCreateBegin(r, body, up, skew, via) ==
    LET s == SummaryStep(body, up)
    IN  /\ nextId <= MaxContexts
        /\ skew = 0 \/ CanAdvance
        /\ nextId' = nextId + 1
        /\ now' = now + skew
        /\ pc' = [pc EXCEPT ![r] = "commit"]
        /\ loc' = [loc EXCEPT ![r] =
                      [op        |-> "create",
                       via       |-> via,
                       body      |-> body,
                       up        |-> Reached(body, up),
                       context   |-> NewContext(body, s, skew),
                       rows      |-> NewMessages(body)]]
        /\ UNCHANGED <<contexts, messages, client, backend, response,
                       submitted, reported>>

\* routes/contexts.py: POST /contexts.  FastAPI validates the body against
\* ContextCreate before the handler runs; a failure is a 422 response.
PostContexts(r, body) ==
    /\ Ready
    /\ Free(r)
    /\ IF ~ContextCreateValid(body)
       THEN /\ response' = [op |-> "create", via |-> "route", status |-> 422,
                            n |-> Len(body.messages)]
            /\ UNCHANGED <<contexts, messages, now, nextId, client, backend,
                           pc, loc, submitted, reported>>
       ELSE \E up \in Upstream, skew \in {0, 1} :
               ServiceCreateBegin(r, body, up, skew, "route")

CreateBegin(r) == \E body \in Bodies : PostContexts(r, body)

\* no request is in flight
Quiet == \A q \in Requests : pc[q] = "idle"

CreateBeginSummary(r) ==
    Quiet /\ \E body \in SummaryBodies : PostContexts(r, body)

CreateBeginCount(r) ==
    Quiet /\ \E body \in CountBodies : PostContexts(r, body)

\* context_service.create_context called directly, without the route
DirectCreate(r) ==
    /\ Ready
    /\ Quiet
    /\ Free(r)
    /\ \E body \in CountBodies, up \in Upstream, skew \in {0, 1} :
          ServiceCreateBegin(r, body, up, skew, "service")

\* line 74: db.commit() publishes the Context and its Messages together
CreateCommit(r) ==
    /\ Ready
    /\ pc[r] = "commit"
    /\ contexts' = contexts \cup {loc[r].context}
    /\ messages' = [messages EXCEPT ![loc[r].context.id] = loc[r].rows]
    /\ submitted' = [submitted EXCEPT ![loc[r].context.id] =
                        Some([body |-> loc[r].body, up |-> loc[r].up])]
    /\ pc' = [pc EXCEPT ![r] = "refresh"]
    /\ UNCHANGED <<now, nextId, client, backend, loc, response, reported>>

\* mutant: the flushed Context row survives the failed request
CreateAbortKeepsContext(r) ==
    /\ Ready
    /\ pc[r] = "commit"
    /\ pc' = [pc EXCEPT ![r] = "idle"]
    /\ loc' = [loc EXCEPT ![r] = NoLocals]
    /\ contexts' = contexts \cup {loc[r].context}
    /\ response' = [op |-> "create", via |-> loc[r].via, status |-> 500,
                    context_id |-> loc[r].context.id,
                    detail |-> "storage fault"]
    /\ UNCHANGED <<messages, now, nextId, client, backend,
                   submitted, reported>>

\* a storage fault while adding the messages or committing: the exception
\* leaves create_context, get_db closes the session (rollback), and the
\* route turns it into a 500
CreateAbort(r) ==
    /\ Ready
    /\ pc[r] = "commit"
    /\ pc' = [pc EXCEPT ![r] = "idle"]
    /\ loc' = [loc EXCEPT ![r] = NoLocals]
    /\ response' = [op |-> "create", via |-> loc[r].via, status |-> 500,
                    context_id |-> loc[r].context.id,
                    detail |-> "storage fault"]
    /\ UNCHANGED <<contexts, messages, now, nextId, client, backend,
                   submitted, reported>>

\* line 75: db.refresh(context) re-reads the row and raises if it is gone;
\* then the route builds ContextCreateResponse (201)
CreateRefresh(r) ==
    /\ Ready
    /\ pc[r] = "refresh"
    /\ pc' = [pc EXCEPT ![r] = "idle"]
    /\ loc' = [loc EXCEPT ![r] = NoLocals]
    /\ response' =
          IF loc[r].context.id \in StoredIds
          THEN [op |-> "create", via |-> loc[r].via, status |-> 201,
                context_id    |-> loc[r].context.id,
                message_count |-> Row(loc[r].context.id).message_count,
                ai_summary    |-> Row(loc[r].context.id).summary,
                created_at    |-> Row(loc[r].context.id).created_at]
          ELSE [op |-> "create", via |-> loc[r].via, status |-> 500,
                context_id |-> loc[r].context.id,
                detail |-> "could not refresh instance"]
    /\ UNCHANGED <<contexts, messages, now, nextId, client, backend,
                   submitted, reported>>

(***************************************************************************)
(* get_context.  The SELECT on contexts and selectinload's SELECT on       *)
(* messages are two statements.  The second returns the rows in an order   *)
(* the database chooses; line 104 then sorts them by sequence_order        *)
(* (list.sort is stable).                                                  *)
(***************************************************************************)
ScanOrders == {"insertion", "reverse"}

Reverse(s) == [i \in 1..Len(s) |-> s[Len(s) + 1 - i]]

Scan(rows, order) == IF order = "insertion" THEN rows ELSE Reverse(rows)

\* mutant: the messages are sorted by their timestamps
SortKeyTimestamp(m) == m.message_timestamp

SortKey(m) == m.sequence_order

SortMessages(rows) == SortSeq(rows, LAMBDA a, b : SortKey(a) < SortKey(b))

MessageResponse(msg) ==
    [role           |-> msg.role,
     content        |-> msg.content,
     timestamp      |-> msg.message_timestamp,
     sequence_order |-> msg.sequence_order]

GetSelect(r) ==
    /\ Ready
    /\ Free(r)
    /\ \E context_id \in PathIds :
          IF context_id \in StoredIds
          THEN /\ pc' = [pc EXCEPT ![r] = "load"]
               /\ loc' = [loc EXCEPT ![r] =
                             [op |-> "get", context |-> Row(context_id)]]
               /\ UNCHANGED response
          ELSE /\ response' = [op |-> "get", status |-> 404,
                               id |-> context_id]
               /\ UNCHANGED <<pc, loc>>
    /\ UNCHANGED <<contexts, messages, now, nextId, client, backend,
                   submitted, reported>>

GetLoad(r) ==
    /\ Ready
    /\ pc[r] = "load"
    /\ \E order \in ScanOrders :
          LET context == loc[r].context
              loaded  == SortMessages(Scan(messages[context.id], order))
          IN  response' =
                 [op            |-> "get",
                  status        |-> 200,
                  id            |-> context.id,
                  platform      |-> context.platform,
                  message_count |-> context.message_count,
                  messages      |-> [i \in 1..Len(loaded) |->
                                        MessageResponse(loaded[i])],
                  formatted     |-> context.formatted_text,
                  summary       |-> context.summary,
                  created_at    |-> context.created_at,
                  updated_at    |-> context.updated_at]
    /\ pc' = [pc EXCEPT ![r] = "idle"]
    /\ loc' = [loc EXCEPT ![r] = NoLocals]
    /\ UNCHANGED <<contexts, messages, now, nextId, client, backend,
                   submitted, reported>>

(***************************************************************************)
(* list_contexts.  The count query and the page query are two statements;  *)
(* the route computes has_more from the count.                             *)
(***************************************************************************)
ListPlatforms == {None, Some(""), Some("chatgpt")}
ListLimits    == {limit_ge - 1, limit_ge, limit_le, limit_le + 1}
ListOffsets   == {offset_ge - 1, 0, 1}

ListQueryValid(platform, limit, offset) ==
    /\ platform = None \/ platform[1] \in Platforms
    /\ limit >= limit_ge /\ limit <= limit_le
    /\ offset >= offset_ge

\* `if platform:` is Python truthiness
Matching(platform) ==
    IF ~Falsy(platform)
    THEN {c \in contexts : c.platform = platform[1]}
    ELSE contexts

\* ORDER BY created_at DESC: rows with equal created_at come in any order
Orderings(S) ==
    {o \in [1..Cardinality(S) -> S] :
        /\ \A i, j \in 1..Cardinality(S) : i # j => o[i] # o[j]
        /\ \A i, j \in 1..Cardinality(S) :
              i < j => o[i].created_at >= o[j].created_at}

Min(a, b) == IF a < b THEN a ELSE b

\* LIMIT limit OFFSET offset
Window(o, limit, offset) == SubSeq(o, offset + 1, Min(offset + limit, Len(o)))

ContextListItem(c) ==
    [id            |-> c.id,
     platform      |-> c.platform,
     message_count |-> c.message_count,
     summary       |-> c.summary,
     created_at    |-> c.created_at]

HasMore(limit, offset, total) == offset + limit < total

ListCount(r) ==
    /\ Ready
    /\ Free(r)
    /\ \E platform \in ListPlatforms, limit \in ListLimits,
          offset \in ListOffsets :
          IF ~ListQueryValid(platform, limit, offset)
          THEN /\ response' = [op |-> "list", status |-> 422]
               /\ UNCHANGED <<pc, loc>>
          ELSE /\ pc' = [pc EXCEPT ![r] = "page"]
               /\ loc' = [loc EXCEPT ![r] =
                             [op       |-> "list",
                              platform |-> platform,
                              limit    |-> limit,
                              offset   |-> offset,
                              total    |-> Cardinality(Matching(platform))]]
               /\ UNCHANGED response
    /\ UNCHANGED <<contexts, messages, now, nextId, client, backend,
                   submitted, reported>>

ListPage(r) ==
    /\ Ready
    /\ pc[r] = "page"
    /\ \E o \in Orderings(Matching(loc[r].platform)) :
          LET page == Window(o, loc[r].limit, loc[r].offset)
          IN  response' =
                 [op       |-> "list",
                  status   |-> 200,
                  contexts |-> [i \in 1..Len(page) |-> ContextListItem(page[i])],
                  total    |-> loc[r].total,
                  limit    |-> loc[r].limit,
                  offset   |-> loc[r].offset,
                  has_more |-> HasMore(loc[r].limit, loc[r].offset,
                                       loc[r].total),
                  platform |-> loc[r].platform,
                  matching |-> Cardinality(Matching(loc[r].platform))]
    /\ pc' = [pc EXCEPT ![r] = "idle"]
    /\ loc' = [loc EXCEPT ![r] = NoLocals]
    /\ UNCHANGED <<contexts, messages, now, nextId, client, backend,
                   submitted, reported>>

(***************************************************************************)
(* delete_context and cleanup_expired_contexts: one DELETE statement and   *)
(* its commit.  The database serialises statements that touch the same     *)
(* row, and others see the deletion at the commit, so each is one step.    *)
(* rowcount is the number of contexts rows the statement removed.          *)
(***************************************************************************)
\* mutant: the rowcount test lets 0 through
DeletedAlways(rowcount) == rowcount >= 0

Deleted(rowcount) == rowcount > 0

DeleteContext ==
    /\ Ready
    /\ \E context_id \in PathIds :
        LET gone     == {c \in contexts : c.id = context_id}
            rowcount == Cardinality(gone)
            deleted  == Deleted(rowcount)
        IN  /\ contexts' = contexts \ gone
            /\ messages' = Cascade({c.id : c \in gone})
            /\ response' = [op |-> "delete", id |-> context_id,
                            deleted |-> deleted,
                            status |-> IF ~deleted THEN 404 ELSE 204]
            /\ reported' = [reported EXCEPT !.deleted[context_id] =
                               IF deleted THEN @ + 1 ELSE @]
            /\ UNCHANGED <<now, nextId, client, backend, pc, loc, submitted>>

\* mutant: the sweep takes the rows expiring right now as well
ExpiredOrExpiring(c, cutoff) == c.expires_at <= cutoff

Expired(c, cutoff) == c.expires_at < cutoff

CleanupExpired ==
    LET gone == {c \in contexts : Expired(c, now)}
    IN  /\ Ready
        /\ contexts' = contexts \ gone
        /\ messages' = Cascade({c.id : c \in gone})
        /\ response' = [op |-> "sweep", count |-> Cardinality(gone),
                        cutoff |-> now]
        /\ reported' = [reported EXCEPT
                            !.swept = @ + Cardinality(gone),
                            !.swept_ids = @ \cup {c.id : c \in gone}]
        /\ UNCHANGED <<now, nextId, client, backend, pc, loc, submitted>>

(***************************************************************************)
(* routes/summarize.py: POST /summarize.  The handler reads and writes no  *)
(* table, so the whole request is one step.  A provider failure reaches    *)
(* the handler as Exception("Failed to generate AI summary: " + text) and  *)
(* is classified by a case-insensitive search of its text.                 *)
(***************************************************************************)
max_tokens_ge == 50
max_tokens_le == 500

SummarizeMaxTokens ==
    {max_tokens_ge - 1, max_tokens_ge, max_tokens_le, max_tokens_le + 1}

SummarizeRequestValid(max_tokens) ==
    max_tokens >= max_tokens_ge /\ max_tokens <= max_tokens_le

\* what the upstream call of a standalone summarization does
SummarizeUpstream ==
    Upstream \cup {[ok |-> FALSE, error |-> "Payment Required"],
                   [ok |-> FALSE, error |-> "Rate limit reached"]}

UpperCase == "ABCDEFGHIJKLMNOPQRSTUVWXYZ"
LowerCase == "abcdefghijklmnopqrstuvwxyz"

LowerChar(ch) ==
    IF \E i \in 1..Len(UpperCase) : SubSeq(UpperCase, i, i) = ch
    THEN LET i == CHOOSE j \in 1..Len(UpperCase) : SubSeq(UpperCase, j, j) = ch
         IN  SubSeq(LowerCase, i, i)
    ELSE ch

\* str.lower()
RECURSIVE Lower(_)
Lower(str) ==
    IF Len(str) = 0 THEN str
    ELSE LowerChar(SubSeq(str, 1, 1)) \o Lower(SubSeq(str, 2, Len(str)))

\* `word in text`
Contains(text, word) ==
    \E i \in 1..(Len(text) - Len(word) + 1) :
        SubSeq(text, i, i + Len(word) - 1) = word

\* mutant: the search is case-sensitive
QuotaOrPaymentCaseSensitive(e) ==
    Contains(e, "quota") \/ Contains(e, "payment")

\* "quota" in str(e).lower() or "payment" in str(e).lower()
QuotaOrPayment(e) ==
    Contains(Lower(e), "quota") \/ Contains(Lower(e), "payment")

is_openai_available == client

Summarize ==
    /\ Ready
    /\ \E n \in {0, 2}, max_tokens \in SummarizeMaxTokens,
          up \in SummarizeUpstream :
          response' =
             IF ~SummarizeRequestValid(max_tokens)
             THEN [op |-> "summarize", status |-> 422]
             ELSE IF ~is_openai_available
             THEN [op |-> "summarize", status |-> 503, up |-> NotReached,
                   detail |-> "OpenAI API is not configured. Please set OPENAI_API_KEY environment variable."]
             ELSE LET result == generate_summary(Conversation(n), up)
                  IN  IF ~result.raised
                      THEN [op          |-> "summarize",
                            status      |-> 200,
                            up          |-> up,
                            summary     |-> result.value.summary,
                            tokens_used |-> result.value.tokens_used,
                            model       |-> result.value.model]
                      ELSE IF QuotaOrPayment(result.error)
                      THEN [op |-> "summarize", status |-> 402, up |-> up,
                            detail |-> "OpenAI API quota exceeded or payment required"]
                      ELSE [op |-> "summarize", status |-> 500, up |-> up,
                            detail |-> "Failed to generate summary: "
                                          \o result.error]
    /\ UNCHANGED <<contexts, messages, now, nextId, client, backend, pc, loc,
                   submitted, reported>>

(***************************************************************************)
(* Specifications.  Spec: the server behind its HTTP routes, plus the      *)
(* externally scheduled sweep.                                             *)
(***************************************************************************)
Next ==
    \/ Deliver
    \/ Tick
    \/ \E r \in Requests : CreateBegin(r)
    \/ \E r \in Requests : CreateCommit(r)
    \/ \E r \in Requests : CreateAbort(r)
    \/ \E r \in Requests : CreateRefresh(r)
    \/ \E r \in Requests : GetSelect(r)
    \/ \E r \in Requests : GetLoad(r)
    \/ \E r \in Requests : ListCount(r)
    \/ \E r \in Requests : ListPage(r)
    \/ DeleteContext
    \/ CleanupExpired

Spec == Init /\ [][Next]_vars

(* SpecCreate: create requests, one at a time, on every combination of     *)
(* client summary and generate_ai_summary, with deletions in between their *)
(* steps.  SpecBoundary: the same on every message count.  SpecService:    *)
(* SpecBoundary plus callers that reach context_service.create_context     *)
(* without the route.                                                      *)
CreateSteps ==
    \/ Deliver
    \/ \E r \in Requests : CreateCommit(r)
    \/ \E r \in Requests : CreateAbort(r)
    \/ \E r \in Requests : CreateRefresh(r)
    \/ DeleteContext

NextCreate ==
    \/ CreateSteps
    \/ \E r \in Requests : CreateBeginSummary(r)

SpecCreate == Init /\ [][NextCreate]_vars

NextBoundary ==
    \/ CreateSteps
    \/ \E r \in Requests : CreateBeginCount(r)

SpecBoundary == Init /\ [][NextBoundary]_vars

NextService ==
    \/ NextBoundary
    \/ \E r \in Requests : DirectCreate(r)

SpecService == Init /\ [][NextService]_vars

\* SpecSummarize: standalone summarization next to the create workflow
NextSummarize ==
    \/ CreateSteps
    \/ \E r \in Requests : CreateBegin(r)
    \/ Summarize

SpecSummarize == Init /\ [][NextSummarize]_vars

(***************************************************************************)
(*                              Properties                                 *)
(***************************************************************************)
Sub(id) == submitted[id][1]      \* the create call that committed id

Committed == {id \in Ids : submitted[id] # None}

\* the create call asked for an AI summary and generate_summary raised
ProviderFailed(sub) == sub.body.generate_ai_summary /\ ~sub.up.ok

\* the create call asked for an AI summary and generate_summary returned
ProviderSucceeded(sub) == sub.body.generate_ai_summary /\ sub.up.ok

Phrase(n) == "Conversation with " \o ToString(n) \o " messages"

\* C1, as claimed: after a provider failure the persisted summary is the
\* client's summary if the client supplied one (anything but null), else
\* the phrase
SummaryAsClaimed(body) ==
    IF body.summary # None
    THEN body.summary
    ELSE Some(Phrase(Len(body.messages)))

\* C1, as the code has it: an empty client summary counts as not supplied
SummaryAsAmended(body) ==
    IF body.summary # None /\ body.summary # Some("")
    THEN body.summary
    ELSE Some(Phrase(Len(body.messages)))

\* what a create whose provider call failed persists carries the fallback
\* summary expected(body), its 201 reports that summary, and the only
\* errors a create returns are those of the store
FallbackPolicy(expected(_)) ==
    /\ \A c \in contexts :
          ProviderFailed(Sub(c.id)) => c.summary = expected(Sub(c.id).body)
    /\ (response.op = "create" /\ response.status = 201
          /\ ProviderFailed(Sub(response.context_id)))
             => /\ response.context_id \in StoredIds
                /\ response.ai_summary = expected(Sub(response.context_id).body)
    /\ (response.op = "create" /\ response.status = 500)
             => response.detail \in {"storage fault",
                                     "could not refresh instance"}

\* C1 (original statement): with generate_ai_summary=true and a failing
\* provider, create still succeeds and the persisted summary is the
\* client-supplied summary if there is one, else "Conversation with N
\* messages".
C1_Original == FallbackPolicy(SummaryAsClaimed)

\* C1 (amended): with generate_ai_summary=true and a failing provider,
\* create still persists the context and surfaces no provider error; the
\* persisted summary is the client-supplied summary if it is non-empty,
\* and "Conversation with N messages" if it is absent or the empty string.
C1_FallbackSummary == FallbackPolicy(SummaryAsAmended)

\* C1 witness: a 201 for a create whose provider failed and whose client
\* summary was the empty string; the stored summary is the phrase
C1_Witness ==
    /\ response.op = "create"
    /\ response.status = 201
    /\ ProviderFailed(Sub(response.context_id))
    /\ Sub(response.context_id).body.summary = Some("")
    /\ Row(response.context_id).summary = Some("Conversation with 2 messages")

\* C2: with generate_ai_summary=false the persisted summary is the
\* client-supplied summary exactly, null included, whatever the provider's
\* state.
C2_ClientSummaryKept ==
    /\ \A c \in contexts :
          ~Sub(c.id).body.generate_ai_summary
             => c.summary = Sub(c.id).body.summary
    /\ (response.op = "create" /\ response.status = 201
          /\ ~Sub(response.context_id).body.generate_ai_summary)
             => response.ai_summary = Sub(response.context_id).body.summary

\* C2 witness: a stored context created without AI summary and without a
\* client summary, on a server whose provider is configured, and one
\* created with the empty summary
C2_Witness ==
    /\ client
    /\ \E c \in contexts :
          /\ ~Sub(c.id).body.generate_ai_summary
          /\ Sub(c.id).body.summary = None
          /\ c.summary = None
    /\ \E c \in contexts :
          /\ ~Sub(c.id).body.generate_ai_summary
          /\ c.summary = Some("")

\* C3: a persisted Context carries summary metadata iff it was created
\* with generate_ai_summary=true and the provider call succeeded; then its
\* summary is the provider's text, whatever the client supplied, and
\* tokens_used is the provider's token count.
C3_MetadataIffProviderSucceeded ==
    \A c \in contexts :
        /\ (c.ai_summary_metadata # None) <=> ProviderSucceeded(Sub(c.id))
        /\ ProviderSucceeded(Sub(c.id))
              => /\ c.summary = Sub(c.id).up.content
                 /\ c.ai_summary_metadata[1].tokens_used
                       = Sub(c.id).up.total_tokens

\* C3 witness: a stored context whose client summary was overridden by the
\* provider's text, next to one whose provider call failed
C3_Witness ==
    /\ \E c \in contexts :
          /\ ProviderSucceeded(Sub(c.id))
          /\ Sub(c.id).body.summary = Some("Greeting exchange")
          /\ c.summary = Some("AI summary")
          /\ c.ai_summary_metadata[1].tokens_used = 214
    /\ \E c \in contexts :
          /\ ProviderFailed(Sub(c.id))
          /\ c.ai_summary_metadata = None

\* the {role, content, timestamp} a stored row or a response item carries
AsSubmitted(m, timestamp) == MessageCreate(m.role, m.content, timestamp)

\* C4: the stored sequence_order values of a context with N messages are
\* exactly 0..N-1, assigned by input index, and get_context returns the
\* messages in the submitted order whatever their timestamps, in every
\* reachable state in which the context is still stored.
C4_RoundTripOrder ==
    /\ \A c \in contexts :
          LET rows == messages[c.id]
              sent == Sub(c.id).body.messages
          IN  /\ Len(rows) = Len(sent)
              /\ {rows[i].sequence_order : i \in 1..Len(rows)}
                    = 0..(Len(sent) - 1)
              /\ \A i \in 1..Len(rows) :
                    AsSubmitted(rows[i], rows[i].message_timestamp)
                       = sent[rows[i].sequence_order + 1]
    /\ (response.op = "get" /\ response.status = 200
          /\ response.id \in StoredIds)
             => LET sent == Sub(response.id).body.messages
                IN  /\ Len(response.messages) = Len(sent)
                    /\ \A i \in 1..Len(sent) :
                          /\ response.messages[i].sequence_order = i - 1
                          /\ AsSubmitted(response.messages[i],
                                         response.messages[i].timestamp)
                                = sent[i]

\* C4 witness: a get, after the other context was deleted, returning two
\* messages the first of which carries the later timestamp
C4_Witness ==
    /\ response.op = "get"
    /\ response.status = 200
    /\ response.id \in StoredIds
    /\ Len(response.messages) = 2
    /\ response.messages[1].timestamp > response.messages[2].timestamp
    /\ reported.deleted[1] = 1

\* C5: no orphaned Messages: every stored Message references a stored
\* Context, in particular after delete_context and after the sweep.
C5_NoOrphanedMessages ==
    \A id \in Ids : messages[id] # <<>> => id \in StoredIds

RECURSIVE SumOver(_, _)
SumOver(f, S) ==
    IF S = {} THEN 0
    ELSE LET x == CHOOSE y \in S : TRUE
         IN  f[x] + SumOver(f, S \ {x})

\* C6: deletion is reported at most once per context: a delete of an id
\* that is not stored returns false (404) every time, a delete of a stored
\* id returns true (204) once, and of a delete and a sweep (or two deletes)
\* aimed at one row exactly one accounts for it; none raises an error.
C6_DeletionAccountedOnce ==
    /\ \A id \in PathIds :
          /\ reported.deleted[id] <= 1
          /\ reported.deleted[id] = 1
                => /\ id \in Committed
                   /\ id \notin StoredIds
                   /\ id \notin reported.swept_ids
    /\ reported.swept = Cardinality(reported.swept_ids)
    /\ Cardinality(contexts) + SumOver(reported.deleted, PathIds)
          + reported.swept = Cardinality(Committed)
    /\ response.op = "delete"
          => /\ response.id \notin StoredIds
             /\ response.status = IF response.deleted THEN 204 ELSE 404
             /\ response.deleted => reported.deleted[response.id] = 1

\* C6 witness: a delete that finds the row already taken by the sweep,
\* after another row was deleted by id
C6_Witness ==
    /\ response.op = "delete"
    /\ ~response.deleted
    /\ response.id \in reported.swept_ids
    /\ \E id \in Ids : reported.deleted[id] = 1

\* C7: the sweep deletes every Context whose expires_at is strictly before
\* the current time and no other, returns the number it deleted, and a
\* get_context issued afterwards for a swept id finds nothing.
C7_ExpirySweep ==
    [][ /\ (response.op = "none" /\ response'.op = "sweep")
           => /\ contexts' = {c \in contexts : c.expires_at >= now}
              /\ response'.count
                    = Cardinality(contexts) - Cardinality(contexts')
        /\ \A r \in Requests :
              (pc[r] = "idle" /\ pc'[r] = "load")
                 => loc'[r].context.id \notin reported.swept_ids
      ]_vars

\* C7 witness: a sweep that removed one context and left the one whose
\* expires_at equals the current time
C7_Witness ==
    /\ response.op = "sweep"
    /\ response.count = 1
    /\ \E c \in contexts : c.expires_at = response.cutoff

\* C8: has_more is true iff offset + limit < total, and a request with
\* offset >= total returns an empty list with has_more = false.
C8_PaginationFlag ==
    (response.op = "list" /\ response.status = 200)
       => /\ response.has_more
                <=> (response.offset + response.limit < response.total)
          /\ response.offset >= response.total
                => /\ response.contexts = <<>>
                   /\ ~response.has_more

\* C9: create_context in the service rejects, and persists nothing, when
\* its input has zero messages or more than the configured maximum,
\* whether or not the route validated it.
C9_ServiceValidatesMessageCount ==
    /\ \A r \in Requests :
          (pc[r] \in {"commit", "refresh"} /\ loc[r].op = "create")
             => /\ Len(loc[r].body.messages) >= 1
                /\ Len(loc[r].body.messages) <= MAX_MESSAGES_PER_CONTEXT
    /\ \A c \in contexts :
          c.message_count >= 1 /\ c.message_count <= MAX_MESSAGES_PER_CONTEXT

\* C10: a POST /contexts with 0 or with 501 or more messages is rejected by
\* request validation before the service or the store is reached, leaving
\* the store unchanged; so every stored Context has 1..500 messages.
C10_BoundaryRejection ==
    /\ [](/\ \A r \in Requests :
               (pc[r] \in {"commit", "refresh"} /\ loc[r].via = "route")
                  => Len(loc[r].body.messages) \in 1..500
          /\ \A c \in contexts :
                /\ c.message_count \in 1..500
                /\ Len(messages[c.id]) = c.message_count
          /\ (response.op = "create" /\ response.status = 422)
                => response.n \notin 1..500)
    /\ [][(response'.op = "create" /\ response'.status = 422)
             => UNCHANGED <<contexts, messages, nextId, pc, loc, submitted>>
         ]_vars

\* C10 witness: a 422 for a body of 501 messages while a context of 500
\* messages is stored
C10_Witness ==
    /\ response.op = "create"
    /\ response.status = 422
    /\ response.n = 501
    /\ \E c \in contexts : c.message_count = 500 /\ Len(messages[c.id]) = 500

\* ids whose create was abandoned before its commit
Aborted ==
    {id \in Ids :
        /\ id < nextId
        /\ submitted[id] = None
        /\ \A r \in Requests :
              ~(loc[r].op = "create" /\ loc[r].context.id = id)}

\* ids a delete_context or a sweep has removed
Removed == {id \in Ids : reported.deleted[id] = 1} \cup reported.swept_ids

\* C11: atomic insert: every Context a get or a list returns, no delete or
\* sweep having removed it meanwhile, has exactly message_count stored
\* Messages, all of the submitted ones; and a Context whose create has not
\* committed, or failed after the flush, is visible to no operation, nor
\* is any of its Messages.
C11_AtomicInsert ==
    /\ \A c \in contexts :
          /\ submitted[c.id] # None
          /\ Len(messages[c.id]) = c.message_count
          /\ c.message_count = Len(Sub(c.id).body.messages)
    /\ \A id \in Ids :
          submitted[id] = None
             => /\ id \notin StoredIds
                /\ messages[id] = <<>>
    /\ (response.op = "get" /\ response.status = 200)
          => /\ submitted[response.id] # None
             /\ response.id \notin Removed
                   => /\ Len(response.messages) = response.message_count
                      /\ Len(response.messages)
                            = Len(Sub(response.id).body.messages)
    /\ (response.op = "list" /\ response.status = 200)
          => \A i \in 1..Len(response.contexts) :
                LET item == response.contexts[i]
                IN  /\ submitted[item.id] # None
                    /\ Len(messages[item.id]) = item.message_count

\* C11 witness: a get returns both messages of a context while the create
\* that took the other id has failed after its flush
C11_Witness ==
    /\ response.op = "get"
    /\ response.status = 200
    /\ Len(response.messages) = 2
    /\ response.message_count = 2
    /\ Aborted # {}

\* C12: for every stored Context expires_at equals created_at plus the
\* retention period exactly, and no operation changes expires_at or
\* created_at of a Context that remains stored.
C12_ExpiresAtDerived ==
    /\ [](\A c \in contexts : c.expires_at = c.created_at + Retention)
    /\ [][\A c \in contexts, d \in contexts' :
             d.id = c.id => /\ d.expires_at = c.expires_at
                            /\ d.created_at = c.created_at
         ]_vars

\* C13: a list response holds exactly the window [offset, offset+limit) of
\* the stored contexts matching the platform filter (all of them without
\* a filter), ordered by created_at descending, and total is the count of
\* all matching contexts.
C13_ListWindow ==
    (response.op = "list" /\ response.status = 200)
       => LET M == Matching(response.platform)
          IN  /\ response.total = Cardinality(M)
              /\ \E o \in Orderings(M) :
                    LET page == Window(o, response.limit, response.offset)
                    IN  response.contexts =
                           [i \in 1..Len(page) |-> ContextListItem(page[i])]

Max(a, b) == IF a > b THEN a ELSE b

\* C15: a list response is consistent with one snapshot of the store: it
\* returns no more than max(0, min(limit, total - offset)) contexts for
\* the total it reports, and has_more is not false while a matching
\* context lies beyond the returned page in the state the page was read
\* from.
C15_ListSnapshot ==
    (response.op = "list" /\ response.status = 200)
       => /\ Len(response.contexts)
                <= Max(0, Min(response.limit,
                              response.total - response.offset))
          /\ ~response.has_more
                => ~(response.matching
                        > response.offset + Len(response.contexts))

\* the provider errors that report a quota or payment failure
QuotaOrPaymentFailures == {"insufficient_quota", "Payment Required"}

\* C14: POST /summarize returns 503 without calling the provider when it
\* is not configured, 402 when the provider reports a quota or payment
\* failure, 500 for every other provider failure, and 200 with the
\* provider's summary, tokens_used and model on success; it never changes
\* the stored Contexts and Messages.
C14_SummarizeStatus ==
    /\ []((response.op = "summarize" /\ response.status # 422)
            => /\ ~client
                     => /\ response.status = 503
                        /\ response.up = NotReached
               /\ (client /\ response.up.ok)
                     => /\ response.status = 200
                        /\ response.summary = response.up.content
                        /\ response.tokens_used = response.up.total_tokens
                        /\ response.model = response.up.model
               /\ (client /\ ~response.up.ok)
                     => response.status =
                           IF response.up.error \in QuotaOrPaymentFailures
                           THEN 402 ELSE 500)
    /\ [][response'.op = "summarize"
             => UNCHANGED <<contexts, messages, nextId, pc, loc, submitted>>
         ]_vars

\* C14 witness: a 402 for a provider error spelled "Payment Required"
\* while a context is stored
C14_Witness ==
    /\ response.op = "summarize"
    /\ response.status = 402
    /\ response.up.error = "Payment Required"
    /\ contexts # {}

====
